---- MODULE Spec2Model ----
(***************************************************************************)
(* graphql-document-composer: discovery of schema documents by an          *)
(* asynchronous directory walk, pairwise dependency classification,        *)
(* dependency graph, topological merge order, schema fold, validation,     *)
(* output, and the watch-mode rebuild trigger.                             *)
(*                                                                         *)
(* The repository holds three near-duplicate variants of the program:      *)
(*   "app"      src/app.ts                                                 *)
(*   "composer" src/graphql-document-composer/app.ts                       *)
(*   "part000"  src/unnamed/part_000 (compiled JavaScript)                 *)
(* They share the walker, the classifier and the graph construction and   *)
(* differ in the file filter, in validation and in the output directory.   *)
(***************************************************************************)
EXTENDS Integers, Sequences, FiniteSets, TLC

\* ------------------------------------------------------------------ bounds
\* Builds started in one run of the process (the initial one included).
MaxBuilds == 2
\* Violation messages validateSchema may return.
MaxViolations == 2

\* --------------------------------------------------------- sequence helpers
Range(s) == { s[i] : i \in 1..Len(s) }

RECURSIVE Flatten(_)
Flatten(ss) == IF ss = <<>> THEN <<>> ELSE Head(ss) \o Flatten(Tail(ss))

IndexOf(s, x) == IF \E i \in 1..Len(s) : s[i] = x
                 THEN CHOOSE i \in 1..Len(s) : s[i] = x /\ \A j \in 1..(i-1) : s[j] # x
                 ELSE 0

\* ------------------------------------------------------------ AST of a document
\* The value of a missing property (schema definitions and extensions carry
\* no name; a failed sub-walk passes no result list).
Undefined == "<undefined>"

NamedType(n) == [kind |-> "NamedType", name |-> n]
ListType(t) == [kind |-> "ListType", type |-> t]
NonNullType(t) == [kind |-> "NonNullType", type |-> t]

InputValue(t, dirs) == [kind |-> "InputValueDefinition", type |-> t,
                        arguments |-> <<>>, directives |-> dirs]
Field(t, args, dirs) == [kind |-> "FieldDefinition", type |-> t,
                         arguments |-> args, directives |-> dirs]
EnumValue(dirs) == [kind |-> "EnumValueDefinition", directives |-> dirs]

Node(k, n, dirs, ifaces, flds, tys, vals) ==
    [kind |-> k, name |-> n, directives |-> dirs, interfaces |-> ifaces,
     fields |-> flds, types |-> tys, values |-> vals]

TypeDefinitionKinds ==
    {"ScalarTypeDefinition", "ObjectTypeDefinition", "InterfaceTypeDefinition",
     "UnionTypeDefinition", "EnumTypeDefinition", "InputObjectTypeDefinition"}
TypeExtensionKinds ==
    {"ScalarTypeExtension", "ObjectTypeExtension", "InterfaceTypeExtension",
     "UnionTypeExtension", "EnumTypeExtension", "InputObjectTypeExtension"}

isTypeDefinitionNode(node) == node.kind \in TypeDefinitionKinds
isTypeSystemDefinitionNode(node) ==
    node.kind \in TypeDefinitionKinds \cup {"SchemaDefinition", "DirectiveDefinition"}
isTypeSystemExtensionNode(node) ==
    node.kind \in TypeExtensionKinds \cup {"SchemaExtension"}

\* /^(.+)Definition$/.exec(kind)[1] and /^(.+)Extension$/.exec(kind)[1]
DefinitionStem(kind) ==
    CASE kind = "SchemaDefinition" -> "Schema"
      [] kind = "DirectiveDefinition" -> "Directive"
      [] kind = "ScalarTypeDefinition" -> "ScalarType"
      [] kind = "ObjectTypeDefinition" -> "ObjectType"
      [] kind = "InterfaceTypeDefinition" -> "InterfaceType"
      [] kind = "UnionTypeDefinition" -> "UnionType"
      [] kind = "EnumTypeDefinition" -> "EnumType"
      [] kind = "InputObjectTypeDefinition" -> "InputObjectType"
ExtensionStem(kind) ==
    CASE kind = "SchemaExtension" -> "Schema"
      [] kind = "ScalarTypeExtension" -> "ScalarType"
      [] kind = "ObjectTypeExtension" -> "ObjectType"
      [] kind = "InterfaceTypeExtension" -> "InterfaceType"
      [] kind = "UnionTypeExtension" -> "UnionType"
      [] kind = "EnumTypeExtension" -> "EnumType"
      [] kind = "InputObjectTypeExtension" -> "InputObjectType"

RECURSIVE unwrap(_)
unwrap(typeNode) == IF typeNode.kind = "NamedType" THEN typeNode ELSE unwrap(typeNode.type)

\* ------------------------------------------------------ dependency classifier
\* The name comparison of lines 70-72 reads .name.value of both nodes; on a
\* node without a name (a schema definition or schema extension) the read
\* throws a TypeError. It is reached for the first pair, in loop order, whose
\* kinds have the same stem without both being "Schema", unless an earlier pair
\* has returned true.
hasExtensionsForThrows(documentA, documentB) ==
    LET exts == SelectSeq(documentA.definitions, isTypeSystemExtensionNode)
        defs == SelectSeq(documentB.definitions, isTypeSystemDefinitionNode)
        bothSchema(i, j) == /\ DefinitionStem(defs[j].kind) = "Schema"
                            /\ ExtensionStem(exts[i].kind) = "Schema"
        readsNames(i, j) == /\ ~bothSchema(i, j)
                            /\ DefinitionStem(defs[j].kind) = ExtensionStem(exts[i].kind)
        returns(i, j) == \/ bothSchema(i, j)
                         \/ readsNames(i, j) /\ defs[j].name = exts[i].name
        before(i1, j1, i, j) == i1 < i \/ (i1 = i /\ j1 < j)
    IN \E i \in 1..Len(exts) : \E j \in 1..Len(defs) :
          /\ readsNames(i, j)
          /\ defs[j].name = Undefined \/ exts[i].name = Undefined
          /\ \A i1 \in 1..Len(exts) : \A j1 \in 1..Len(defs) :
                before(i1, j1, i, j) => ~returns(i1, j1)

\* Mutant: the kinds are not compared, only the names.
hasExtensionsForByName(documentA, documentB) ==
    LET exts == SelectSeq(documentA.definitions, isTypeSystemExtensionNode)
        defs == SelectSeq(documentB.definitions, isTypeSystemDefinitionNode)
    IN \E i \in 1..Len(exts) : \E j \in 1..Len(defs) : defs[j].name = exts[i].name

hasExtensionsFor(documentA, documentB) ==
    LET exts == SelectSeq(documentA.definitions, isTypeSystemExtensionNode)
        defs == SelectSeq(documentB.definitions, isTypeSystemDefinitionNode)
    IN \E i \in 1..Len(exts) : \E j \in 1..Len(defs) :
          LET typeDefinitionMatch == DefinitionStem(defs[j].kind)
              typeExtensionMatch == ExtensionStem(exts[i].kind)
          IN \/ typeDefinitionMatch = "Schema" /\ typeExtensionMatch = "Schema"
             \/ /\ typeDefinitionMatch = typeExtensionMatch
                /\ defs[j].name = exts[i].name

\* The names one definition of documentA pushes onto typeNames.
DefinitionTypeNames(definition) ==
    LET k == definition.kind
        ifaces == IF k \in {"ObjectTypeDefinition", "ObjectTypeExtension"}
                  THEN [i \in 1..Len(definition.interfaces) |-> definition.interfaces[i].name]
                  ELSE <<>>
        perField(field) ==
            (IF field.kind = "FieldDefinition"
             THEN [i \in 1..Len(field.arguments) |-> unwrap(field.arguments[i].type).name]
             ELSE <<>>) \o <<unwrap(field.type).name>>
        flds == IF k \in {"ObjectTypeDefinition", "InterfaceTypeDefinition",
                          "InputObjectTypeDefinition", "ObjectTypeExtension",
                          "InterfaceTypeExtension", "InputObjectTypeExtension"}
                THEN Flatten([i \in 1..Len(definition.fields) |-> perField(definition.fields[i])])
                ELSE <<>>
        members == IF k \in {"UnionTypeDefinition", "UnionTypeExtension"}
                   THEN [i \in 1..Len(definition.types) |-> unwrap(definition.types[i]).name]
                   ELSE <<>>
    IN ifaces \o flds \o members

\* The names one definition of documentA pushes onto directiveNames.
DefinitionDirectiveNames(definition) ==
    LET k == definition.kind
        own == IF isTypeDefinitionNode(definition) THEN definition.directives ELSE <<>>
        flds == IF k \in {"ObjectTypeDefinition", "InterfaceTypeDefinition",
                          "InputObjectTypeDefinition", "ObjectTypeExtension",
                          "InterfaceTypeExtension", "InputObjectTypeExtension"}
                THEN Flatten([i \in 1..Len(definition.fields) |-> definition.fields[i].directives])
                ELSE <<>>
        vals == IF k \in {"EnumTypeDefinition", "EnumTypeExtension"}
                THEN Flatten([i \in 1..Len(definition.values) |-> definition.values[i].directives])
                ELSE <<>>
    IN own \o flds \o vals

hasTypesFor(documentA, documentB) ==
    LET typeNames ==
            Flatten([i \in 1..Len(documentA.definitions) |->
                        DefinitionTypeNames(documentA.definitions[i])])
        directiveNames ==
            Flatten([i \in 1..Len(documentA.definitions) |->
                        DefinitionDirectiveNames(documentA.definitions[i])])
        directives == SelectSeq(documentB.definitions,
                                LAMBDA definition : definition.kind = "DirectiveDefinition")
        types == SelectSeq(documentB.definitions, isTypeDefinitionNode)
    IN \/ \E i \in 1..Len(directives) : IndexOf(directiveNames, directives[i].name) > 0
       \/ \E i \in 1..Len(types) : IndexOf(typeNames, types[i].name) > 0

isDependentOn(documentA, documentB) ==
    hasExtensionsFor(documentA, documentB) \/ hasTypesFor(documentA, documentB)

\* ------------------------------------------------------------------ file names
\* A path is its text up to the last dot and the extension after it; a name
\* without a dot has the extension "".
F(stem, ext) == [stem |-> stem, ext |-> ext]

\* String.prototype.toLowerCase on the extensions that occur.
toLowerCase(ext) ==
    CASE ext = "GraphQL" -> "graphql"
      [] ext = "GQL" -> "gql"
      [] OTHER -> ext

\* /^.*\.g(raph)?ql$/i.test(fileName); the composer variant tests
\* fileName.toLowerCase().endsWith(".graphql"). test(undefined) tests the
\* text "undefined".
fileFilter(v, fileName) ==
    IF v = "composer"
    THEN toLowerCase(fileName.ext) = "graphql"
    ELSE toLowerCase(fileName.ext) \in {"graphql", "gql"}

\* The element results.concat(undefined) appends: as a file name it reads
\* "undefined", which has no extension.
UndefinedEntry == F(Undefined, "")

\* ------------------------------------------------------------- source trees
Root == F(".", "")
Malformed == "<malformed>"

ObjectType(n, ifaces, flds) ==
    Node("ObjectTypeDefinition", n, <<>>, ifaces, flds, <<>>, <<>>)
ObjectExt(n, flds) == Node("ObjectTypeExtension", n, <<>>, <<>>, flds, <<>>, <<>>)
DirectiveDef(n) == Node("DirectiveDefinition", n, <<>>, <<>>, <<>>, <<>>, <<>>)
ScalarType(n) == Node("ScalarTypeDefinition", n, <<>>, <<>>, <<>>, <<>>, <<>>)

\* base.graphql: type Query { ping: String }
\* ext.GraphQL:  extend type Query { pong: [Thing!]! }
\* sub/util.gql: type Thing { id: ID }
TreeExtend ==
    [dirs |-> (Root :> <<F("base", "graphql"), F("ext", "GraphQL"), F("sub", "")>>)
              @@ (F("sub", "") :> <<F("sub/util", "gql")>>),
     content |->
        (F("base", "graphql") :>
            <<ObjectType("Query", <<>>, <<Field(NamedType("String"), <<>>, <<>>)>>)>>)
        @@ (F("ext", "GraphQL") :>
            <<ObjectExt("Query",
                <<Field(NonNullType(ListType(NonNullType(NamedType("Thing")))),
                        <<>>, <<>>)>>)>>)
        @@ (F("sub/util", "gql") :>
            <<ObjectType("Thing", <<>>, <<Field(NamedType("ID"), <<>>, <<>>)>>)>>)]

\* x.graphql: type X { y: Y }  extend type Y { b: Int }
\* y.graphql: type Y { a: Int } extend type X { c: Int }
TreeCycle ==
    [dirs |-> (Root :> <<F("x", "graphql"), F("y", "graphql")>>),
     content |->
        (F("x", "graphql") :>
            <<ObjectType("X", <<>>, <<Field(NamedType("Y"), <<>>, <<>>)>>),
              ObjectExt("Y", <<Field(NamedType("Int"), <<>>, <<>>)>>)>>)
        @@ (F("y", "graphql") :>
            <<ObjectType("Y", <<>>, <<Field(NamedType("Int"), <<>>, <<>>)>>),
              ObjectExt("X", <<Field(NamedType("Int"), <<>>, <<>>)>>)>>)]

\* a.graphql: directive @foo on FIELD_DEFINITION  type A { f(x: [Int!]): String @foo }
\* b.graphql: type B { g: [A] }  extend type A { h: Int }
\* c.graphql: scalar C
TreeIndependent ==
    [dirs |-> (Root :> <<F("a", "graphql"), F("b", "graphql"), F("c", "graphql")>>),
     content |->
        (F("a", "graphql") :>
            <<DirectiveDef("foo"),
              ObjectType("A", <<>>,
                <<Field(NamedType("String"),
                        <<InputValue(ListType(NonNullType(NamedType("Int"))), <<>>)>>,
                        <<"foo">>)>>)>>)
        @@ (F("b", "graphql") :>
            <<ObjectType("B", <<>>,
                <<Field(ListType(NamedType("A")), <<>>, <<>>)>>),
              ObjectExt("A", <<Field(NamedType("Int"), <<>>, <<>>)>>)>>)
        @@ (F("c", "graphql") :> <<ScalarType("C")>>)]

\* bad.graphql: text that is no schema document; empty: a directory without entries
TreeMalformed ==
    [dirs |-> (Root :> <<F("bad", "graphql"), F("empty", "")>>)
              @@ (F("empty", "") :> <<>>),
     content |-> (F("bad", "graphql") :> Malformed)]

\* readme.txt only: no schema document at all
TreeNoDocuments ==
    [dirs |-> (Root :> <<F("readme", "txt")>>),
     content |-> (F("readme", "txt") :> Malformed)]

Trees == <<TreeExtend, TreeCycle, TreeIndependent, TreeMalformed, TreeNoDocuments>>

\* stat.isDirectory()
isDirectory(t, file) == file \in DOMAIN t.dirs

\* --------------------------------------------------- documents to classify
\* Documents the classifier is applied to pairwise, one per way a document
\* can declare, extend or reference a name.
Document(name, definitions) == [name |-> F(name, "graphql"), definitions |-> definitions]

StringField == Field(NamedType("String"), <<>>, <<>>)

Documents ==
    << \* schema { query: T }
       Document("schemaDef", <<Node("SchemaDefinition", Undefined, <<>>, <<>>, <<>>, <<>>, <<>>)>>),
       \* extend schema { mutation: M }
       Document("schemaExt", <<Node("SchemaExtension", Undefined, <<>>, <<>>, <<>>, <<>>, <<>>)>>),
       \* schema { query: T }  type T { f: String }
       Document("schemaAndT",
                <<Node("SchemaDefinition", Undefined, <<>>, <<>>, <<>>, <<>>, <<>>),
                  ObjectType("T", <<>>, <<StringField>>)>>),
       \* extend schema { mutation: M }  extend type T { f: String }
       Document("extSchemaAndT",
                <<Node("SchemaExtension", Undefined, <<>>, <<>>, <<>>, <<>>, <<>>),
                  ObjectExt("T", <<StringField>>)>>),
       \* type T { f: String }
       Document("typeT", <<ObjectType("T", <<>>, <<StringField>>)>>),
       \* interface T { f: String }
       Document("interfaceT",
                <<Node("InterfaceTypeDefinition", "T", <<>>, <<>>, <<StringField>>, <<>>, <<>>)>>),
       \* directive @T on OBJECT
       Document("directiveT", <<DirectiveDef("T")>>),
       \* extend type T { f: String }
       Document("extTypeT", <<ObjectExt("T", <<StringField>>)>>),
       \* extend interface T { f: String }
       Document("extInterfaceT",
                <<Node("InterfaceTypeExtension", "T", <<>>, <<>>, <<StringField>>, <<>>, <<>>)>>),
       \* extend scalar U @T
       Document("extScalarU",
                <<Node("ScalarTypeExtension", "U", <<"T">>, <<>>, <<>>, <<>>, <<>>)>>),
       \* scalar U
       Document("scalarU", <<ScalarType("U")>>),
       \* directive @foo on OBJECT | FIELD_DEFINITION | ARGUMENT_DEFINITION | ENUM_VALUE
       Document("directiveFoo", <<DirectiveDef("foo")>>),
       \* type A @foo { f: String }
       Document("onDefinition",
                <<Node("ObjectTypeDefinition", "A", <<"foo">>, <<>>, <<StringField>>, <<>>, <<>>)>>),
       \* extend type A @foo
       Document("onExtension",
                <<Node("ObjectTypeExtension", "A", <<"foo">>, <<>>, <<>>, <<>>, <<>>)>>),
       \* type A { f: String @foo }
       Document("onField",
                <<ObjectType("A", <<>>, <<Field(NamedType("String"), <<>>, <<"foo">>)>>)>>),
       \* type A { f(x: Int @foo): String }
       Document("onArgument",
                <<ObjectType("A", <<>>,
                    <<Field(NamedType("String"),
                            <<InputValue(NamedType("Int"), <<"foo">>)>>, <<>>)>>)>>),
       \* enum E { V @foo }
       Document("onEnumValue",
                <<Node("EnumTypeDefinition", "E", <<>>, <<>>, <<>>, <<>>,
                       <<EnumValue(<<"foo">>)>>)>>),
       \* type A { f: [U!]! }
       Document("fieldType",
                <<ObjectType("A", <<>>,
                    <<Field(NonNullType(ListType(NonNullType(NamedType("U")))),
                            <<>>, <<>>)>>)>>),
       \* type A { f(x: [U]): String }
       Document("argumentType",
                <<ObjectType("A", <<>>,
                    <<Field(NamedType("String"),
                            <<InputValue(ListType(NamedType("U")), <<>>)>>, <<>>)>>)>>),
       \* type A implements T { f: String }
       Document("implements", <<ObjectType("A", <<NamedType("T")>>, <<StringField>>)>>),
       \* union X = U
       Document("unionMember",
                <<Node("UnionTypeDefinition", "X", <<>>, <<>>, <<>>, <<NamedType("U")>>, <<>>)>>),
       \* input In { f: U! }
       Document("inputField",
                <<Node("InputObjectTypeDefinition", "In", <<>>, <<>>,
                       <<InputValue(NonNullType(NamedType("U")), <<>>)>>, <<>>, <<>>)>> ) >>

\* -------------------------------------------------- dependency-graph: DepGraph
EmptyGraph == [nodes |-> <<>>, data |-> <<>>, outgoingEdges |-> <<>>, incomingEdges |-> <<>>]

hasNode(g, node) == node \in Range(g.nodes)

addNode(g, node, data) ==
    IF hasNode(g, node) THEN g
    ELSE [nodes |-> Append(g.nodes, node),
          data |-> Append(g.data, data),
          outgoingEdges |-> Append(g.outgoingEdges, <<>>),
          incomingEdges |-> Append(g.incomingEdges, <<>>)]

getNodeData(g, node) == g.data[IndexOf(g.nodes, node)]
Outgoing(g, node) == g.outgoingEdges[IndexOf(g.nodes, node)]
Incoming(g, node) == g.incomingEdges[IndexOf(g.nodes, node)]

addDependency(g, from, to) ==
    LET f == IndexOf(g.nodes, from)
        t == IndexOf(g.nodes, to)
    IN [g EXCEPT !.outgoingEdges[f] = IF to \in Range(@) THEN @ ELSE Append(@, to),
                 !.incomingEdges[t] = IF from \in Range(@) THEN @ ELSE Append(@, from)]

\* createDFS: depth-first visit along outgoingEdges; a node is appended to the
\* result after its dependencies; meeting a node of the current path is a cycle.
NewDFS == [visited |-> {}, currentPath |-> <<>>, result |-> <<>>, cycle |-> FALSE]

RECURSIVE DFS(_, _, _), DFSEdges(_, _, _, _)
DFS(g, st, currentNode) ==
    LET st1 == [st EXCEPT !.visited = @ \cup {currentNode},
                          !.currentPath = Append(@, currentNode)]
        st2 == DFSEdges(g, st1, currentNode, 1)
    IN IF st2.cycle THEN st2
       ELSE LET st3 == [st2 EXCEPT !.currentPath = SubSeq(@, 1, Len(@) - 1)]
            IN IF currentNode \in Range(st3.result) THEN st3
               ELSE [st3 EXCEPT !.result = Append(@, currentNode)]
DFSEdges(g, st, currentNode, i) ==
    IF st.cycle \/ i > Len(Outgoing(g, currentNode)) THEN st
    ELSE LET node == Outgoing(g, currentNode)[i]
             st1 == IF node \notin st.visited THEN DFS(g, st, node)
                    ELSE IF node \in Range(st.currentPath)
                         THEN [st EXCEPT !.currentPath = Append(@, node), !.cycle = TRUE]
                         ELSE st
         IN DFSEdges(g, st1, currentNode, i + 1)

RECURSIVE DFSAll(_, _, _)
DFSAll(g, st, starts) ==
    IF starts = <<>> \/ st.cycle THEN st
    ELSE DFSAll(g, DFS(g, st, Head(starts)), Tail(starts))

\* overallOrder: a cycle search from every node, then the order by a visit from
\* every node nothing depends on, the nodes taken in insertion order.
overallOrder(g) ==
    LET CycleDFS == DFSAll(g, NewDFS, g.nodes)
        roots == SelectSeq(g.nodes, LAMBDA node : Len(Incoming(g, node)) = 0)
    IN IF CycleDFS.cycle
       THEN [cycle |-> TRUE, path |-> CycleDFS.currentPath, order |-> <<>>]
       ELSE [cycle |-> FALSE, path |-> <<>>, order |-> DFSAll(g, NewDFS, roots).result]

\* ------------------------------------------------------------ build callback
\* "if (err) throw err", data.filter(...).map(readFileSync, new Source) and
\* sources.map(parse).
\* The composer variant calls fileName.toLowerCase() on every element and
\* throws on an undefined one; readFileSync throws on a directory; parse
\* throws on a malformed text. A document's name is its path relative to dir.
Sources(v, t, err, data) ==
    LET files == SelectSeq(data, LAMBDA fileName : fileFilter(v, fileName))
        \* a walk that failed: the root's (err) or a sub-directory's
        \* (its result is the undefined element of data)
        partial == err \/ UndefinedEntry \in Range(data)
    IN IF err THEN [threw |-> "discovery", documents |-> <<>>, partial |-> partial]
       ELSE IF v = "composer" /\ UndefinedEntry \in Range(data)
       THEN [threw |-> "discovery", documents |-> <<>>, partial |-> partial]
       ELSE IF \E i \in 1..Len(files) : isDirectory(t, files[i])
       THEN [threw |-> "read", documents |-> <<>>, partial |-> partial]
       ELSE IF \E i \in 1..Len(files) : t.content[files[i]] = Malformed
       THEN [threw |-> "parse", documents |-> <<>>, partial |-> partial]
       ELSE [threw |-> "no", partial |-> partial,
             documents |-> [i \in 1..Len(files) |->
                              [name |-> files[i],
                               definitions |-> t.content[files[i]]]]]

RECURSIVE AddNodes(_, _)
AddNodes(g, documents) ==
    IF documents = <<>> THEN g
    ELSE AddNodes(addNode(g, Head(documents).name, Head(documents)), Tail(documents))

\* Mutant: the filter classifies by references only and misses extensions.
DependenciesTypesOnly(documents, documentA) ==
    SelectSeq(documents, LAMBDA documentB :
        documentB.name # documentA.name /\ hasTypesFor(documentA, documentB))

\* Mutant: the filter does not exclude the document itself.
DependenciesWithSelf(documents, documentA) ==
    SelectSeq(documents, LAMBDA documentB : isDependentOn(documentA, documentB))

\* documents.filter(documentB => names differ && isDependentOn(documentA, documentB))
Dependencies(documents, documentA) ==
    SelectSeq(documents, LAMBDA documentB :
        documentB.name # documentA.name /\ isDependentOn(documentA, documentB))

\* Mutant: the arguments of addDependency exchanged.
AddDependencyCallSwapped(g, documentA, documentB) ==
    addDependency(g, documentB.name, documentA.name)

\* graph.addDependency(documentA name, documentB name) of line 161
AddDependencyCall(g, documentA, documentB) ==
    addDependency(g, documentA.name, documentB.name)

RECURSIVE AddDependenciesOf(_, _, _)
AddDependenciesOf(g, documentA, deps) ==
    IF deps = <<>> THEN g
    ELSE AddDependenciesOf(AddDependencyCall(g, documentA, Head(deps)), documentA, Tail(deps))

RECURSIVE AddEdges(_, _, _)
AddEdges(g, documents, i) ==
    IF i > Len(documents) THEN g
    ELSE AddEdges(AddDependenciesOf(g, documents[i], Dependencies(documents, documents[i])),
                  documents, i + 1)

BuildGraph(documents) == AddEdges(AddNodes(EmptyGraph, documents), documents, 1)

\* The reducer of the fold: buildASTSchema for index 0, extendSchema after it.
\* A schema is the sequence of the documents applied to it.
FoldOp(index) == IF index = 0 THEN "buildASTSchema" ELSE "extendSchema"

\* Mutant: every document is built from scratch, the accumulated schema dropped.
FoldStepRebuild(schema, document, index) == <<document.name>>

FoldStep(schema, document, index) ==
    IF index = 0 THEN <<document.name>> ELSE Append(schema, document.name)

\* graph.overallOrder().map(getNodeData).reduce(..., null); failAt > 0 is the
\* step at which buildASTSchema or extendSchema throws, 0 when none does.
RECURSIVE Reduce(_, _, _, _)
Reduce(documents, index, acc, failAt) ==
    IF index >= Len(documents) THEN acc
    ELSE IF failAt = index + 1
    THEN [acc EXCEPT !.threw = TRUE,
                     !.log = Append(@, [op |-> FoldOp(index),
                                        document |-> documents[index + 1].name,
                                        ok |-> FALSE])]
    ELSE Reduce(documents, index + 1,
                [acc EXCEPT !.schema = FoldStep(@, documents[index + 1], index),
                            !.log = Append(@, [op |-> FoldOp(index),
                                               document |-> documents[index + 1].name,
                                               ok |-> TRUE])],
                failAt)

Fold(g, order, failAt) ==
    Reduce([i \in 1..Len(order) |-> getNodeData(g, order[i])], 0,
           [schema |-> <<>>, log |-> <<>>, threw |-> FALSE], failAt)

\* The messages validateSchema returns.
Violations(n) == [i \in 1..n |-> i]

\* What a build callback has done; "none" before any has run.
NoBuild ==
    [outcome |-> "none", end |-> "return", documents |-> <<>>, nodes |-> <<>>,
     outgoingEdges |-> <<>>, cycle |-> FALSE, order |-> <<>>, path |-> <<>>,
     log |-> <<>>, validated |-> FALSE, messages |-> <<>>, reported |-> <<>>,
     wrote |-> FALSE, partial |-> FALSE]

\* fs.writeFileSync(output, printSchema(schema)), with the variant's handling
\* of the output's directory: "app" creates it when the output does not
\* exist, "part000" always, "composer" never (the write then throws).
WriteOutput(v, r, schema, out) ==
    IF v = "composer" /\ ~out.dir
    THEN [r |-> [r EXCEPT !.outcome = "write", !.end = "throw"], out |-> out]
    ELSE [r |-> [r EXCEPT !.outcome = "ok", !.wrote = TRUE],
          out |-> [dir |-> TRUE, exists |-> TRUE, content |-> schema]]

\* validateSchema(schema) and the report of its messages; only "app" validates.
\* validateSchema throws on the null schema of an empty fold; without
\* validation printSchema throws on it ("part000" has then made the directory).
Validate(v, r, schema, nViol, out) ==
    IF schema = <<>>
    THEN [r |-> [r EXCEPT !.outcome = IF v = "app" THEN "validation" ELSE "print",
                          !.end = "throw"],
          out |-> IF v = "part000" THEN [out EXCEPT !.dir = TRUE] ELSE out]
    ELSE IF v # "app" THEN WriteOutput(v, r, schema, out)
    ELSE IF nViol > 0
    THEN [r |-> [r EXCEPT !.outcome = "validation", !.end = "exit1",
                          !.validated = TRUE, !.messages = Violations(nViol),
                          !.reported = Violations(nViol)],
          out |-> out]
    ELSE WriteOutput(v, [r EXCEPT !.validated = TRUE], schema, out)

\* The callback build passes to directoryWalker (lines 140-193), given what
\* its stages have computed: src the parsed sources, graph the dependency
\* graph, oo the answer of overallOrder, fold the fold. A stage that throws
\* ends the callback; nViol is the answer of validateSchema.
BuildCallback(v, err, src, graph, oo, fold, nViol, out) ==
    IF err \/ src.threw # "no"
    THEN [r |-> [NoBuild EXCEPT !.outcome = src.threw, !.end = "throw",
                                !.partial = src.partial],
          out |-> out]
    ELSE
    LET r1 == [NoBuild EXCEPT !.documents = [i \in 1..Len(src.documents) |->
                                                src.documents[i].name],
                              !.nodes = graph.nodes,
                              !.outgoingEdges = graph.outgoingEdges,
                              !.partial = src.partial]
    IN IF oo.cycle
       THEN [r |-> [r1 EXCEPT !.outcome = "cycle", !.end = "throw",
                              !.cycle = TRUE, !.path = oo.path],
             out |-> out]
       ELSE IF fold.threw
       THEN [r |-> [r1 EXCEPT !.order = oo.order, !.log = fold.log,
                              !.outcome = "assembly", !.end = "throw"],
             out |-> out]
       ELSE Validate(v, [r1 EXCEPT !.order = oo.order, !.log = fold.log],
                     fold.schema, nViol, out)

\* ----------------------------------------------------------- directoryWalker
Dirs(t) == DOMAIN t.dirs
Entries(t) == UNION { Range(t.dirs[d]) : d \in Dirs(t) }
Parent(t, d) == CHOOSE p \in Dirs(t) : d \in Range(t.dirs[p])

\* One invocation of directoryWalker: its results and pending, and the stat
\* calls whose callback has not run.
IdleWalk == [state |-> "idle", pending |-> 0, results |-> <<>>, statLeft |-> {}]
\* A call of build: calls counts the invocations of its callback, err is the
\* err the callback got.
NewBuild(t) ==
    [phase |-> "walking", calls |-> 0, err |-> FALSE,
     w |-> [d \in Dirs(t) |-> IF d = Root THEN [IdleWalk EXCEPT !.state = "readdir"]
                                          ELSE IdleWalk]]
DoneBuild(build, res) ==
    [phase |-> "done", calls |-> build.calls + 1, err |-> res.err, w |-> res.w]

\* done(err, res) of the walk of directory d. For the root it is the build
\* callback; for a sub-directory it is the callback of lines 42-45, which
\* concatenates res (undefined after an error) and counts pending down.
RECURSIVE Done(_, _, _, _, _)
Done(t, w, d, err, res) ==
    LET w0 == [w EXCEPT ![d].state = "done"]
    IN IF d = Root
       THEN [w |-> w0, called |-> TRUE, err |-> err, data |-> res]
       ELSE LET p == Parent(t, d)
                w1 == [w0 EXCEPT ![p].results = @ \o (IF err THEN <<UndefinedEntry>> ELSE res),
                                 ![p].pending = @ - 1]
            IN IF w1[p].pending = 0
               THEN Done(t, w1, p, FALSE, w1[p].results)
               ELSE [w |-> w1, called |-> FALSE, err |-> FALSE, data |-> <<>>]

\* The callback of fs.readdir (lines 26-53).
Readdir(t, w, d, err) ==
    LET list == t.dirs[d]
    IN IF err THEN Done(t, w, d, TRUE, <<>>)
       ELSE IF Len(list) = 0 THEN Done(t, w, d, FALSE, w[d].results)
       ELSE [w |-> [w EXCEPT ![d].state = "stat", ![d].pending = Len(list),
                             ![d].statLeft = Range(list)],
             called |-> FALSE, err |-> FALSE, data |-> <<>>]

\* The callback of fs.stat for one entry (lines 36-51). After an error stat
\* is undefined and the entry, a directory or not, is pushed as a file.
Stat(t, w, d, file, err) ==
    LET w1 == [w EXCEPT ![d].statLeft = @ \ {file}, ![d].results = Append(@, file)]
    IN IF ~err /\ isDirectory(t, file)
       THEN [w |-> [w1 EXCEPT ![file].state = "readdir"],
             called |-> FALSE, err |-> FALSE, data |-> <<>>]
       ELSE LET w2 == [w1 EXCEPT ![d].pending = @ - 1]
            IN IF w2[d].pending = 0
               THEN Done(t, w2, d, FALSE, w2[d].results)
               ELSE [w |-> w2, called |-> FALSE, err |-> FALSE, data |-> <<>>]

\* ------------------------------------------------------------------- state
VARIABLES
    variant,    \* which of the three source files runs
    tree,       \* the source directory (one of Trees), unchanged in a run
    watch,      \* program.watch
    proc,       \* "running", "exited0", "exited1" (process.exit(1)), "crashed" (uncaught throw)
    started,    \* calls of build so far
    walk,       \* per build: its phase and the state of its directory walk
    output,     \* the output file and its directory
    last,       \* what the build callback that ran last has done
    orders,     \* per set of documents, the merge orders overallOrder has returned
    lastEvent,  \* the watch event handled last and whether it called start
    pair        \* two documents and what the classifier has answered on them

vars == <<variant, tree, watch, proc, started, walk, output, last, orders, lastEvent, pair>>

Variants == {"app", "composer", "part000"}

\* documentA and documentB of a call of the classifier and the answers of
\* hasExtensionsFor and hasTypesFor on them, "pending" before the call.
Unclassified(documentA, documentB) ==
    [documentA |-> documentA, documentB |-> documentB,
     extensions |-> "pending", types |-> "pending"]
NoPair == Unclassified(Document("", <<>>), Document("", <<>>))

NoOutput(dir) == [dir |-> dir, exists |-> FALSE, content |-> <<>>]
OldOutput == [dir |-> TRUE, exists |-> TRUE, content |-> <<F("previous", "graphql")>>]

\* After the top-level code has run: the watcher is registered when
\* program.watch is set and start() has called build, whose readdir is pending.
Start(watches) ==
    /\ variant \in Variants
    /\ tree \in Range(Trees)
    /\ watch \in watches
    /\ proc = "running"
    /\ started = 1
    /\ walk = <<NewBuild(tree)>>
    /\ output \in {NoOutput(FALSE), NoOutput(TRUE), OldOutput}
    /\ last = NoBuild
    /\ orders = {}
    /\ lastEvent = [seen |-> FALSE, file |-> Root, started |-> FALSE]
    /\ pair = NoPair

Init == Start(BOOLEAN)

InFlight == { b \in 1..started : walk[b].phase = "walking" }

\* How the process goes on after a build callback: an uncaught throw and
\* process.exit(1) end it; without a watcher it ends when nothing is pending.
AfterCallback(end) ==
    CASE end = "throw" -> "crashed"
      [] end = "exit1" -> "exited1"
      [] OTHER -> IF watch THEN "running" ELSE "exited0"

\* The build callback has run as the last part of a walker callback of build b.
Finish(b, res, bc) ==
    /\ walk' = [walk EXCEPT ![b] = DoneBuild(@, res)]
    /\ output' = bc.out
    /\ last' = bc.r
    /\ orders' = IF bc.r.outcome \in {"discovery", "read", "parse", "cycle"}
                 THEN orders
                 ELSE orders \cup {[documents |-> Range(bc.r.documents),
                                    order |-> bc.r.order]}
    /\ proc' = AfterCallback(bc.r.end)
    /\ UNCHANGED <<variant, tree, watch, started, lastEvent, pair>>

\* A walker callback of build b has run with result res (of Readdir or Stat);
\* when it has called the root's done, the build callback has run in it.
Step(b, res) ==
    IF res.called
    THEN \E src \in {Sources(variant, tree, res.err, res.data)} :
         \E graph \in {BuildGraph(src.documents)} :
         \E oo \in {overallOrder(graph)} :
         \E failAt \in 0..Len(oo.order),
            nViol \in (IF variant = "app" THEN 0..MaxViolations ELSE {0}) :
         \E fold \in {Fold(graph, oo.order, failAt)} :
         \E bc \in {BuildCallback(variant, res.err, src, graph, oo, fold, nViol, output)} :
            Finish(b, res, bc)
    ELSE /\ walk' = [walk EXCEPT ![b].w = res.w]
         /\ UNCHANGED <<variant, tree, watch, proc, started, output, last, orders, lastEvent,
                        pair>>

ReaddirCallback(b, d) ==
    /\ proc = "running"
    /\ walk[b].w[d].state = "readdir"
    /\ \E err \in BOOLEAN : \E res \in {Readdir(tree, walk[b].w, d, err)} : Step(b, res)

StatCallback(b, d, file) ==
    /\ proc = "running"
    /\ file \in walk[b].w[d].statLeft
    /\ \E err \in (IF isDirectory(tree, file) THEN BOOLEAN ELSE {FALSE}) :
       \E res \in {Stat(tree, walk[b].w, d, file, err)} : Step(b, res)

\* build(dir, output): directoryWalker(dir, callback) issues fs.readdir.
start ==
    /\ started' = started + 1
    /\ walk' = Append(walk, NewBuild(tree))

\* The fs.watch callback (lines 206-211).
WatchEvent(filename) ==
    /\ watch
    /\ proc = "running"
    /\ started < MaxBuilds
    /\ IF fileFilter(variant, filename)
       THEN /\ lastEvent' = [seen |-> TRUE, file |-> filename, started |-> FALSE]
            /\ UNCHANGED <<started, walk>>
       ELSE /\ lastEvent' = [seen |-> TRUE, file |-> filename, started |-> TRUE]
            /\ start
    /\ UNCHANGED <<variant, tree, watch, proc, output, last, orders, pair>>

Next ==
    \/ \E b \in 1..started, d \in Dirs(tree) : ReaddirCallback(b, d)
    \/ \E b \in 1..started, d \in Dirs(tree), file \in Entries(tree) : StatCallback(b, d, file)
    \/ \E filename \in Entries(tree) : WatchEvent(filename)

Spec == Init /\ [][Next]_vars

\* The program run without --watch: one build, no watcher.
InitOnce == Start({FALSE})

NextOnce ==
    \/ \E d \in Dirs(tree) : ReaddirCallback(1, d)
    \/ \E d \in Dirs(tree), file \in Entries(tree) : StatCallback(1, d, file)

SpecOnce == InitOnce /\ [][NextOnce]_vars

\* The classifier on its own: hasExtensionsFor and hasTypesFor applied to a
\* pair of documents, as the filter of line 158 applies them through
\* isDependentOn. No build runs.
InitClassify ==
    /\ variant = "app"
    /\ tree = TreeNoDocuments
    /\ watch = FALSE
    /\ proc = "running"
    /\ started = 0
    /\ walk = <<>>
    /\ output = NoOutput(FALSE)
    /\ last = NoBuild
    /\ orders = {}
    /\ lastEvent = [seen |-> FALSE, file |-> Root, started |-> FALSE]
    /\ \E documentA, documentB \in Range(Documents) :
          pair = Unclassified(documentA, documentB)

Answer(b) == IF b THEN "true" ELSE "false"

CallHasExtensionsFor ==
    /\ pair.extensions = "pending"
    /\ pair' = [pair EXCEPT !.extensions =
                    IF hasExtensionsForThrows(pair.documentA, pair.documentB)
                    THEN "TypeError"
                    ELSE Answer(hasExtensionsFor(pair.documentA, pair.documentB))]
    /\ UNCHANGED <<variant, tree, watch, proc, started, walk, output, last, orders, lastEvent>>

CallHasTypesFor ==
    /\ pair.types = "pending"
    /\ pair' = [pair EXCEPT !.types = Answer(hasTypesFor(pair.documentA, pair.documentB))]
    /\ UNCHANGED <<variant, tree, watch, proc, started, walk, output, last, orders, lastEvent>>

NextClassify == CallHasExtensionsFor \/ CallHasTypesFor

SpecClassify == InitClassify /\ [][NextClassify]_vars

\* ------------------------------------------------------------------ claims
\* The parsed document of a file of the source tree.
Doc(name) == [name |-> name, definitions |-> tree.content[name]]

\* A dependent, B the dependency: the classifier on two distinct documents.
DependsOn(A, B) == A # B /\ isDependentOn(Doc(A), Doc(B))

\* The last callback has built the graph (it got past discovery and parsing).
BuiltGraph == last.outcome \notin {"none", "discovery", "read", "parse"}
\* The last callback has reached the fold (overallOrder has returned).
ReachedFold == BuiltGraph /\ last.outcome # "cycle"
\* The last callback has taken the fold to its end.
FoldCompleted == ReachedFold /\ last.outcome # "assembly"

NoRepeats(seq) == \A i, j \in 1..Len(seq) : seq[i] = seq[j] => i = j

\* C1: when a build reaches the fold, the order returned by overallOrder is a
\* permutation of the document names, every dependency stands before its
\* dependent in it, and the fold applies a dependent only after its dependency.
C1_DependenciesFirst ==
    ReachedFold =>
        /\ NoRepeats(last.order)
        /\ Range(last.order) = Range(last.documents)
        /\ \A A, B \in Range(last.documents) :
              DependsOn(A, B) =>
                 /\ IndexOf(last.order, B) < IndexOf(last.order, A)
                 /\ \A i \in 1..Len(last.log) :
                       last.log[i].document = A =>
                          \E j \in 1..(i - 1) : last.log[j].document = B /\ last.log[j].ok

\* C1 witness: a build that has written its output from three documents, one
\* of which depends on another one.
C1_Witness ==
    /\ last.outcome = "ok"
    /\ Len(last.log) = 3
    /\ \E A, B \in Range(last.documents) : DependsOn(A, B)

\* The transitive closure of a relation given as a set of pairs.
RECURSIVE Closure(_)
Closure(R) ==
    LET R2 == R \cup { <<z[1][1], z[2][2]>> : z \in { z \in R \X R : z[1][2] = z[2][1] } }
    IN IF R2 = R THEN R ELSE Closure(R2)

\* The documents of the last callback require each other in a circle.
HasCycle ==
    LET docs == Range(last.documents)
        pairs == { p \in docs \X docs : DependsOn(p[1], p[2]) }
    IN \E A \in docs : <<A, A>> \in Closure(pairs)

\* The path of a cycle error ends in a document it holds before, and from
\* there on every document depends on the next one.
NamesCycle(path) ==
    /\ Len(path) >= 2
    /\ \E k \in 1..(Len(path) - 1) :
          /\ path[k] = path[Len(path)]
          /\ \A i \in k..(Len(path) - 1) : DependsOn(path[i], path[i + 1])

\* The output file is as it was when the process started.
OutputUntouched ==
    \/ ~output.exists /\ output.content = <<>>
    \/ output = OldOutput

\* C2: when the documents depend on each other in a circle, the build ends in
\* a cycle error whose path names documents of a cycle; nothing is folded and
\* the output is not written.
C2_CycleFails ==
    (BuiltGraph /\ HasCycle) =>
        /\ last.outcome = "cycle"
        /\ last.end = "throw"
        /\ NamesCycle(last.path)
        /\ last.log = <<>>
        /\ ~last.wrote
        /\ OutputUntouched

\* C2 witness: x extends a type of y and y extends a type of x, and the build
\* has ended in the cycle error.
C2_Witness ==
    /\ last.outcome = "cycle"
    /\ HasCycle
    /\ \E A, B \in Range(last.documents) :
          /\ A # B
          /\ hasExtensionsFor(Doc(A), Doc(B))
          /\ hasExtensionsFor(Doc(B), Doc(A))

\* C3 (the claim as stated): the output is written only after a validation
\* that found no violation; a pass in which discovery (the walk of the root
\* or of a sub-directory), parsing, ordering, assembly or validation failed
\* writes nothing; every violation message is reported.
C3_WriteOnlyAfterValidation ==
    /\ last.wrote => (last.validated /\ last.messages = <<>>)
    /\ (last.partial \/ last.outcome \notin {"none", "ok"}) => ~last.wrote
    /\ last.reported = last.messages

\* C4 (the claim as stated): at no time are two builds in flight.
C4_BuildsSerialized == Cardinality(InFlight) <= 1

\* program.output, as fs.watch would name it: it lies outside the source tree.
OutputName == F("../dist/schema", "graphql")

\* C5 (the claim as stated): a watch event starts a build exactly when its
\* file is a schema document other than the output.
C5_TriggerOnSchemaDocuments ==
    lastEvent.seen =>
        (lastEvent.started <=>
            (fileFilter(variant, lastEvent.file) /\ lastEvent.file # OutputName))

\* C6 (the claim as stated): in watch mode the process keeps running after a
\* build pass that failed.
C6_FailedBuildKeepsWatching ==
    (watch /\ last.outcome \notin {"none", "ok"}) => proc = "running"

\* C8 (the claim as stated): for the same documents overallOrder returns the
\* same order, however the walker delivered the files.
C8_OrderIsFunctionOfGraph ==
    \A p, q \in orders : p.documents = q.documents => p.order = q.order

\* C9: after graph construction the nodes are the documents and the edges of
\* a document A are exactly the documents B of another name with
\* isDependentOn(A, B), each once; no document has an edge to itself.
C9_EdgeSet ==
    BuiltGraph =>
        /\ last.nodes = last.documents
        /\ \A i \in 1..Len(last.nodes) :
              /\ Range(last.outgoingEdges[i]) =
                    { B \in Range(last.documents) : DependsOn(last.nodes[i], B) }
              /\ NoRepeats(last.outgoingEdges[i])
              /\ last.nodes[i] \notin Range(last.outgoingEdges[i])

\* C9 witness: a graph has been built from a document that references what it
\* defines itself and a document that depends on another one for two reasons.
C9_Witness ==
    /\ BuiltGraph
    /\ \E A \in Range(last.documents) : isDependentOn(Doc(A), Doc(A))
    /\ \E A, B \in Range(last.documents) :
          /\ A # B
          /\ hasExtensionsFor(Doc(A), Doc(B))
          /\ hasTypesFor(Doc(A), Doc(B))
          /\ B \in Range(last.outgoingEdges[IndexOf(last.nodes, A)])

\* C10: the fold applies the documents of the merge order from left to right,
\* the first with buildASTSchema and each later one with extendSchema; it
\* stops only where a primitive throws, and the schema that is written is the
\* one accumulated from all documents in that order.
C10_FoldLeftToRight ==
    ReachedFold =>
        /\ Len(last.log) <= Len(last.order)
        /\ \A i \in 1..Len(last.log) :
              /\ last.log[i].document = last.order[i]
              /\ last.log[i].op = IF i = 1 THEN "buildASTSchema" ELSE "extendSchema"
              /\ last.log[i].ok <=> (i < Len(last.log) \/ FoldCompleted)
        /\ FoldCompleted => Len(last.log) = Len(last.order)
        /\ last.wrote => output.content = last.order

\* C10 witness: a fold over three documents has been written.
C10_Witness ==
    /\ last.wrote
    /\ Len(last.order) = 3
    /\ output.content = last.order

\* The kinds of type extension and of type definition, by category.
ExtensionOf ==
    [object |-> "ObjectTypeExtension", interface |-> "InterfaceTypeExtension",
     input |-> "InputObjectTypeExtension", enum |-> "EnumTypeExtension",
     union |-> "UnionTypeExtension", scalar |-> "ScalarTypeExtension"]
DefinitionOf ==
    [object |-> "ObjectTypeDefinition", interface |-> "InterfaceTypeDefinition",
     input |-> "InputObjectTypeDefinition", enum |-> "EnumTypeDefinition",
     union |-> "UnionTypeDefinition", scalar |-> "ScalarTypeDefinition"]

\* A extends the schema B defines, or a type B defines in the same category
\* under the same name.
ExtendsWhatIsDefined(A, B) ==
    LET a == Range(A.definitions)
        b == Range(B.definitions)
    IN \/ /\ \E e \in a : e.kind = "SchemaExtension"
          /\ \E d \in b : d.kind = "SchemaDefinition"
       \/ \E category \in DOMAIN ExtensionOf : \E e \in a, d \in b :
             /\ e.kind = ExtensionOf[category]
             /\ d.kind = DefinitionOf[category]
             /\ e.name = d.name

\* C11: hasExtensionsFor(A, B) never fails, and it answers true exactly when A
\* holds a schema extension and B a schema definition, or A holds a type
\* extension and B a definition of the same category and the same name.
C11_HasExtensionsFor ==
    pair.extensions # "pending" =>
        /\ pair.extensions # "TypeError"
        /\ pair.extensions = Answer(ExtendsWhatIsDefined(pair.documentA, pair.documentB))

\* C11 witness: the classifier has answered false on an extension of the
\* interface T against a document that holds the nameless schema definition
\* and the object type T: the names match, the categories differ.
C11_Witness ==
    /\ pair.extensions = "false"
    /\ \E e \in Range(pair.documentA.definitions) :
          /\ e.kind = "InterfaceTypeExtension"
          /\ \E d \in Range(pair.documentB.definitions) :
                d.kind = "ObjectTypeDefinition" /\ d.name = e.name
    /\ \E d \in Range(pair.documentB.definitions) : d.kind = "SchemaDefinition"

\* The directive names applied in a document: on its type definitions and
\* type extensions, on their fields, on the fields' arguments and on enum values.
AppliedDirectives(A) ==
    LET nodes == { n \in Range(A.definitions) :
                      n.kind \in TypeDefinitionKinds \cup TypeExtensionKinds }
        fields == UNION { Range(n.fields) : n \in nodes }
        carriers == nodes \cup fields
                    \cup UNION { Range(f.arguments) : f \in fields }
                    \cup UNION { Range(n.values) : n \in nodes }
    IN UNION { Range(c.directives) : c \in carriers }

\* The named types a document references: field types, argument types,
\* implemented interfaces and union members, without their list and non-null
\* wrappers.
ReferencedTypes(A) ==
    LET nodes == { n \in Range(A.definitions) :
                      n.kind \in TypeDefinitionKinds \cup TypeExtensionKinds }
        fields == UNION { Range(n.fields) : n \in nodes }
        typeNodes == { f.type : f \in fields }
                     \cup { a.type : a \in UNION { Range(f.arguments) : f \in fields } }
                     \cup UNION { Range(n.interfaces) : n \in nodes }
                     \cup UNION { Range(n.types) : n \in nodes }
    IN { unwrap(t).name : t \in typeNodes }

ReferencesWhatIsDefined(A, B) ==
    \/ \E d \in Range(B.definitions) :
          d.kind = "DirectiveDefinition" /\ d.name \in AppliedDirectives(A)
    \/ \E d \in Range(B.definitions) :
          d.kind \in TypeDefinitionKinds /\ d.name \in ReferencedTypes(A)

\* C12 (the claim as stated): hasTypesFor(A, B) answers true exactly when a
\* directive applied anywhere in A (on a type definition, a type extension, a
\* field, an argument, an enum value) is defined in B, or a named type A
\* references is defined, not merely extended, in B.
C12_HasTypesFor ==
    pair.types # "pending" =>
        pair.types = Answer(ReferencesWhatIsDefined(pair.documentA, pair.documentB))

\* A callback of the walk of build b has not run yet.
Pending(b) ==
    \E d \in Dirs(tree) : walk[b].w[d].state = "readdir" \/ walk[b].w[d].statLeft # {}

\* The completion callback of build b runs once: never twice, not while a
\* callback of the walk is outstanding, and as soon as none is.
CalledOnce(b) ==
    /\ walk[b].calls <= 1
    /\ walk[b].calls = 1 => ~Pending(b)
    /\ ~Pending(b) => walk[b].calls = 1

\* Build b has got a result list without err from a walk that has stat'ed
\* every entry of every directory and completed the walk of every directory,
\* and the list holds every file under the root.
CompleteList(b) ==
    /\ \A d \in Dirs(tree) :
          /\ walk[b].w[d].state \notin {"readdir", "stat"}
          /\ Range(tree.dirs[d]) \subseteq Range(walk[b].w[d].results)
    /\ Entries(tree) \ Dirs(tree) \subseteq Range(walk[b].w[Root].results)

\* C13 (the claim as stated): whatever the order of the readdir and stat
\* callbacks, directoryWalker calls its completion callback exactly once, and
\* without err only with the complete list of the files under the root.
C13_WalkerCompletes ==
    \A b \in 1..started :
        /\ CalledOnce(b)
        /\ (walk[b].calls = 1 /\ ~walk[b].err) => CompleteList(b)
====
